---- MODULE Spec2Model ----
(***************************************************************************)
(* Model of main.py: scrape a random article (fetch_random_article), ask   *)
(* the language model for a post (generate_tweet_from_lmstudio), compose   *)
(* the final text and publish it through the device (download_image_via_   *)
(* brave, post_to_x_via_android).                                          *)
(*                                                                         *)
(* A Python str is a sequence of one-character strings; None is the        *)
(* one-element sequence <<"None">>, which no str equals.                   *)
(***************************************************************************)
EXTENDS Integers, Sequences, FiniteSets, TLC

\* ------------------------------------------------------------- bounds
\* Longest listing page (number of article links on it).
MaxLinks == 2
\* How far past the character budget the longest model reply goes.
MaxOver == 1

\* ------------------------------------------------------ program constants
\* char_budget of generate_tweet_from_lmstudio.
char_budget == 3000
\* The ceiling main compares the final text with, and cuts it to.
FINAL_LIMIT == 3000
\* limit=10 of find_all_next("h3", limit=10).
H3_LIMIT == 10
\* max_wait = 5 (seconds) of the readiness poll.
max_wait == 5
\* time.sleep(0.5); wait_time += 0.5 of the readiness poll, in tenths of a second.
POLL_STEP_TENTHS == 5
\* range(min(len(candidates), 10)) of the ImageView fallback.
IMAGEVIEW_SCAN == 10

\* ------------------------------------------------------------ strings
None == <<"None">>

WS == {" ", "\n", "\t", "\r"}

RECURSIVE LStrip(_)
LStrip(s) ==
  IF s # <<>> /\ Head(s) \in WS THEN LStrip(Tail(s)) ELSE s

RECURSIVE RStrip(_)
RStrip(s) ==
  IF s # <<>> /\ s[Len(s)] \in WS THEN RStrip(SubSeq(s, 1, Len(s) - 1)) ELSE s

\* str.strip()
Strip(s) == RStrip(LStrip(s))

\* s[:n]
Take(s, n) == IF Len(s) <= n THEN s ELSE SubSeq(s, 1, n)

\* c * n
Rep(c, n) == [i \in 1..n |-> c]

\* sep.join(parts)
RECURSIVE Join(_, _)
Join(parts, sep) ==
  IF parts = <<>> THEN <<>>
  ELSE IF Len(parts) = 1 THEN parts[1]
  ELSE parts[1] \o sep \o Join(Tail(parts), sep)

\* str(n) for a natural number
RECURSIVE Digits(_)
Digits(n) ==
  LET d == <<"0","1","2","3","4","5","6","7","8","9">>[(n % 10) + 1]
  IN IF n < 10 THEN <<d>> ELSE Append(Digits(n \div 10), d)

\* bool(x) of an Optional[str]
Truthy(x) == x # None /\ x # <<>>

BASE_URL ==
  <<"h","t","t","p","s",":","/","/","w","i","k","i","p",".","c","o">>
CATEGORY_PATH ==
  <<"/","c","a","t","e","g","o","r","i","e","s","/","n","a","t","u","r","a","l","-","h","e","a","l","i","n","g","/">>
NO_LINKS_MSG ==
  <<"N","o"," ","s","u","i","t","a","b","l","e"," ","l","i","n","k","s"," ","f","o","u","n","d",".">>
S_Scraping ==
  <<"S","c","r","a","p","i","n","g"," ","a","r","t","i","c","l","e",".",".",".">>
S_GotArticle ==
  <<"G","o","t"," ","a","r","t","i","c","l","e",":"," ">>
S_ImageUrl ==
  <<"I","m","a","g","e"," ","U","R","L",":"," ">>
S_DryScraped ==
  <<"D","R","Y"," ","R","U","N"," ","M","O","D","E"," ","-"," ","W","e","b"," ","S","c","r","a","p","e","d"," ","C","o","n","t","e","n","t">>
S_Title ==
  <<"\n","T","i","t","l","e",":"," ">>
S_ArticleUrl ==
  <<"\n","A","r","t","i","c","l","e"," ","U","R","L",":"," ">>
S_NlImageUrl ==
  <<"\n","I","m","a","g","e"," ","U","R","L",":"," ">>
S_NoneWord ==
  <<"N","o","n","e">>
S_ContentHdr ==
  <<"\n","C","o","n","t","e","n","t",":","\n">>
S_Generating ==
  <<"\n","G","e","n","e","r","a","t","i","n","g"," ","t","w","e","e","t"," ","w","i","t","h"," ","L","M"," ","S","t","u","d","i","o",".",".",".">>
S_DryPost ==
  <<"D","R","Y"," ","R","U","N"," ","M","O","D","E"," ","-"," ","M","o","d","e","l"," ","G","e","n","e","r","a","t","e","d"," ","P","o","s","t">>
S_TweetBody ==
  <<"\n","T","w","e","e","t"," ","B","o","d","y"," ","(","l","e","n","g","t","h",":"," ">>
S_FinalPost ==
  <<"\n","F","i","n","a","l"," ","P","o","s","t"," ","(","l","e","n","g","t","h",":"," ">>
S_LenClose ==
  <<")",":">>
S_DrySkip ==
  <<"\n","[","D","R","Y"," ","R","U","N","]"," ","S","k","i","p","p","i","n","g"," ","A","n","d","r","o","i","d"," ","p","o","s","t","i","n","g">>
S_Done ==
  <<"D","o","n","e",".">>
S_Preview ==
  <<"\n","-","-","-"," ","T","w","e","e","t"," ","p","r","e","v","i","e","w"," ","-","-","-">>
S_PreviewEnd ==
  <<"-","-","-","-","-","-","-","-","-","-","-","-","-","-","-","-","-","-","-","-","-","\n">>
S_Downloading ==
  <<"D","o","w","n","l","o","a","d","i","n","g"," ","i","m","a","g","e"," ","v","i","a"," ","B","r","a","v","e",".",".",".">>
S_Posting ==
  <<"P","o","s","t","i","n","g"," ","t","o"," ","X"," ","v","i","a"," ","A","n","d","r","o","i","d",".",".",".">>
T_Benefits ==
  <<"B","e","n","e","f","i","t","s">>
T_Reduces ==
  <<"R","e","d","u","c","e","s"," ","i","n","f","l","a","m","m","a","t","i","o","n",".">>
T_HerbTitle ==
  <<" ","H","e","a","l","i","n","g"," ","H","e","r","b","\n">>
T_HerbImg ==
  <<"h","t","t","p","s",":","/","/","w","i","k","i","p",".","c","o","/","i","/","h"," ","b",".","p","n","g">>

\* ------------------------------------------------------- article pages
\* A page is [span, img, nodes]: the text of the span of h1.article-title
\* (None when the h1 or its span is absent), the src of the first img (None
\* when there is none) and the sibling nodes of the article body in document
\* order, each [name, id, cls, text]; a bare text node has name "".
RECOGNIZED_H2 == {"Healing-Properties", "Biological-Properties", "Disease-Symptom-Treatment"}

Node(name, id, cls, text) == [name |-> name, id |-> id, cls |-> cls, text |-> text]

PageHerb ==
  [span |-> T_HerbTitle, img |-> T_HerbImg,
   nodes |-> << Node("h3", "", "", <<"I","n","t","r","o">>),
                Node("h2", "Healing-Properties", "", <<"H","P">>),
                Node("h3", "", "", T_Benefits),
                Node("", "", "", <<"\n">>),
                Node("p", "", "", T_Reduces \o <<" ">>),
                Node("section", "", "footnotes", <<"1",".","r","e","f">>),
                Node("h2", "References", "", <<"R">>),
                Node("p", "", "", <<"s","k","i","p">>) >>]

PageUnknownH2 ==
  [span |-> <<"O">>, img |-> None,
   nodes |-> << Node("h2", "Overview", "", <<"O">>),
                Node("h3", "", "", <<"H","i","s","t">>),
                Node("p", "", "", <<"O","l","d",".">>) >>]

PageNoH3 ==
  [span |-> <<"N">>, img |-> T_HerbImg,
   nodes |-> << Node("h3", "", "", <<"E","a","r","l","y">>),
                Node("h2", "Biological-Properties", "", <<"B","P">>),
                Node("p", "", "", <<"t","e","x","t">>) >>]

PageNoTitle ==
  [span |-> None, img |-> None,
   nodes |-> << Node("h2", "Disease-Symptom-Treatment", "", <<"D">>),
                Node("h3", "", "", <<"U","s","e","s">>),
                Node("p", "", "", <<"T","e","a",".">>) >>]

PageBlankH3 ==
  [span |-> <<"B">>, img |-> None,
   nodes |-> << Node("h2", "Healing-Properties", "", <<"H","P">>),
                Node("h3", "", "", <<" ">>) >>]

PageManyH3 ==
  [span |-> <<"M">>, img |-> <<>>,
   nodes |-> << Node("h2", "Biological-Properties", "", <<"B","P">>) >>
             \o [i \in 1..(H3_LIMIT + 1) |->
                   Node("h3", "", "", <<"s">> \o Digits(i))]]

\* No page loaded yet.
NoPage == [span |-> None, img |-> None, nodes |-> <<>>]

Pages == {PageHerb, PageUnknownH2, PageNoH3, PageNoTitle, PageBlankH3, PageManyH3}

\* ------------------------------------------------------- extraction
MinOf(S) == CHOOSE i \in S : \A j \in S : i <= j

RECURSIVE Sorted(_)
Sorted(S) == IF S = {} THEN <<>> ELSE <<MinOf(S)>> \o Sorted(S \ {MinOf(S)})

\* footnotes_section.decompose(): the first section.footnotes is removed.
Decompose(nodes) ==
  LET foot == {i \in 1..Len(nodes) :
                 nodes[i].name = "section" /\ nodes[i].cls = "footnotes"}
  IN IF foot = {} THEN nodes
     ELSE SubSeq(nodes, 1, MinOf(foot) - 1) \o SubSeq(nodes, MinOf(foot) + 1, Len(nodes))

\* article_soup.find("h2", id=lambda x: x in [...]): its index, 0 when absent.
FindH2(nodes) ==
  LET hs == {i \in 1..Len(nodes) :
               nodes[i].name = "h2" /\ nodes[i].id \in RECOGNIZED_H2}
  IN IF hs = {} THEN 0 ELSE MinOf(hs)

\* h2_tag.find_all_next("h3", limit=10): the indices of the h3 after the h2.
FindAllNextH3(nodes, h2) ==
  Take(Sorted({i \in (h2 + 1)..Len(nodes) : nodes[i].name = "h3"}), H3_LIMIT)

\* The blocks one h3 contributes: its text, then the text of each named
\* sibling after it up to the next h3 or h2.
BlocksOf(nodes, h3) ==
  LET stops == {k \in (h3 + 1)..Len(nodes) : nodes[k].name \in {"h3", "h2"}}
      last == IF stops = {} THEN Len(nodes) ELSE MinOf(stops) - 1
      sibs == SelectSeq(SubSeq(nodes, h3 + 1, last), LAMBDA n : n.name # "")
  IN <<Strip(nodes[h3].text)>> \o [i \in 1..Len(sibs) |-> Strip(sibs[i].text)]

RECURSIVE CollectBlocks(_, _)
CollectBlocks(nodes, h3s) ==
  IF h3s = <<>> THEN <<>>
  ELSE BlocksOf(nodes, Head(h3s)) \o CollectBlocks(nodes, Tail(h3s))

\* content_list of fetch_random_article for a page.
ContentList(page) ==
  LET nodes == Decompose(page.nodes)
      h2 == FindH2(nodes)
  IN IF h2 = 0 THEN <<>> ELSE CollectBlocks(nodes, FindAllNextH3(nodes, h2))

\* title of fetch_random_article for a page.
TitleOf(page) == IF page.span = None THEN None ELSE Strip(page.span)

\* Mutant of FilterLinks: the attempted URLs are not filtered out.
FilterLinksKeepAll(links, att) == links

\* The links of the listing page whose resolved URL is not in attempted.
FilterLinks(links, att) ==
  SelectSeq(links, LAMBDA h : \A i \in 1..Len(att) : att[i] # BASE_URL \o h)

\* Mutant of AppendAttempted: the picked URL is not recorded.
AppendAttemptedDropped(att, url) == att

\* attempted.append(article_url)
AppendAttempted(att, url) == Append(att, url)

\* The tuple returned when no link is left.
NoLinksResult ==
  [title |-> None, content |-> None, image_url |-> None, article_url |-> NO_LINKS_MSG]

\* Mutant of ArticleResult: the listing URL (url) is returned in place of
\* article_url.
ArticleResultListingUrl(page, url) ==
  [title |-> TitleOf(page), content |-> Join(ContentList(page), <<"\n">>),
   image_url |-> page.img, article_url |-> BASE_URL \o CATEGORY_PATH]

\* The tuple returned for an article with content blocks.
ArticleResult(page, url) ==
  [title |-> TitleOf(page), content |-> Join(ContentList(page), <<"\n">>),
   image_url |-> page.img, article_url |-> url]

\* Mutant of BadPick: an empty content_list is not noticed.
BadPickNever(page) == FALSE

\* if not content_list: the article is a bad pick and the fetch is retried.
BadPick(page) == ContentList(page) = <<>>

\* ---------------------------------------------------- post composition
\* tweet = resp.choices[0].message.content.strip(); return tweet[:char_budget]
GenerateTweet(raw) == Take(Strip(raw), char_budget)

\* final_text[:3000] + "..."
Truncate(text) == Take(text, FINAL_LIMIT) \o <<".", ".", ".">>

\* final_text of main for a tweet body and an article URL.
ComposeFinal(body, url) ==
  LET text == Strip(body \o <<"\n", "\n">> \o url)
  IN IF Len(text) > FINAL_LIMIT THEN Truncate(text) ELSE text

\* --------------------------------------------------------- environment
Hrefs == {<<"/", "a">>, <<"/", "b">>}

Listings == UNION {[1..n -> Hrefs] : n \in 0..MaxLinks}

\* Length of "\n\n" + article URL, the room the URL takes in the final text.
UrlRoom == 2 + Len(BASE_URL) + 2

\* The replies the language model may give: short ones, ones that just fit
\* or just overflow once the URL is appended, ones at and over the budget.
LmReplies ==
  {Rep("a", n) : n \in {2, FINAL_LIMIT - UrlRoom, FINAL_LIMIT - UrlRoom + 1}
                       \cup (char_budget..(char_budget + MaxOver))}
  \cup {<<>>, <<" ", "\n">> \o Rep("a", 2) \o <<"\t">>,
        Rep("a", char_budget - 1) \o <<" ", "b", "c">>}

\* The replies of a run of the whole program: within the budget, with and
\* without surrounding whitespace.
ShortReplies == {Rep("a", 2), <<" ", "\n">> \o Rep("b", 2) \o <<"\t">>}

\* ---------------------------------------------------------------- state
VARIABLES
  dry_run,        \* args.dry_run
  lm_set,         \* LM_BASE_URL and LM_MODEL are both set
  serial_set,     \* ANDROID_SERIAL is set
  listing,        \* hrefs of the a.timeline-article-title links of the listing page
  attempted,      \* attempted of fetch_random_article
  frames,         \* one entry per call of fetch_random_article: attempted and links at entry
  article_url,    \* article_url of the innermost call
  article_page,   \* the article page the innermost call loaded (article_soup)
  content_list,   \* content_list of the innermost call
  result,         \* (title, content, image_url, article_url) as main receives it
  tweet_body,     \* tweet_body of main
  final_text,     \* final_text of main
  log,            \* the requests made and the device calls that advance a flow, in order
  stdout,         \* lines printed so far
  pc,             \* position of the program
  err,            \* the exception that ended the run, "" when none
  inputs_found,   \* inputs_found of post_to_x_via_android
  clicked,        \* clicked of download_image_via_brave
  menu_tries,     \* calls of open_context_menu made so far by download_image_via_brave
  seen            \* what the last device step found on the screen, and what it tapped

\* inputs_found, clicked and menu_tries are locals: they hold their initial
\* value outside the call, and are given it back when the call returns.
vars == <<dry_run, lm_set, serial_set, listing, attempted, frames, article_url,
          article_page, content_list, result, tweet_body, final_text, log, stdout, pc, err,
          inputs_found, clicked, menu_tries, seen>>

config == <<dry_run, lm_set, serial_set, listing>>
fetchState == <<attempted, frames, article_url, article_page, content_list, result>>
postState == <<tweet_body, final_text>>
deviceState == <<inputs_found, clicked, menu_tries, seen>>

\* A log entry: the call, its target, and the text it carries (<<>> when none).
Call(op, arg, text) == [op |-> op, arg |-> arg, text |-> text]

Printed(lines) == stdout' = stdout \o lines

Raise(e) == pc' = "raised" /\ err' = e

\* ------------------------------------------------------- device screens
\* Each device step reads the screen as it is at that moment: the step's
\* action draws it from the screens below.

\* The texts of the browser's context menu, the permission prompt and the
\* album list.
L_DownloadImage == <<"D","o","w","n","l","o","a","d"," ","i","m","a","g","e">>
L_SaveImage == <<"S","a","v","e"," ","i","m","a","g","e">>
L_SaveImageAs == <<"S","a","v","e"," ","i","m","a","g","e"," ","a","s">>
L_Download == <<"D","o","w","n","l","o","a","d">>
L_OpenNewTab ==
  <<"O","p","e","n"," ","i","m","a","g","e"," ","i","n"," ","n","e","w"," ","t","a","b">>
L_CopyImage == <<"C","o","p","y"," ","i","m","a","g","e">>
L_SaveToGallery ==
  <<"S","a","v","e"," ","i","m","a","g","e"," ","t","o"," ","g","a","l","l","e","r","y">>
L_Downloads == <<"D","o","w","n","l","o","a","d","s">>
L_Recents == <<"R","e","c","e","n","t","s">>
L_Recent == <<"R","e","c","e","n","t">>
L_Photos == <<"P","h","o","t","o","s">>
L_AllPhotos == <<"A","l","l"," ","P","h","o","t","o","s">>
L_Camera == <<"C","a","m","e","r","a">>
L_Gallery == <<"G","a","l","l","e","r","y">>
L_Allow == <<"A","l","l","o","w">>
L_ALLOW == <<"A","L","L","O","W">>
L_WhileUsing == <<"W","h","i","l","e"," ","u","s","i","n","g"," ","t","h","e"," ","a","p","p">>
L_AllowAlways == <<"A","l","l","o","w"," ","a","l","l"," ","t","h","e"," ","t","i","m","e">>
L_Deny == <<"D","e","n","y">>

ALNUM ==
  {"a","b","c","d","e","f","g","h","i","j","k","l","m","n","o","p","q","r","s","t","u","v","w","x","y","z",
   "A","B","C","D","E","F","G","H","I","J","K","L","M","N","O","P","Q","R","S","T","U","V","W","X","Y","Z",
   "0","1","2","3","4","5","6","7","8","9"}

\* urllib.parse.quote(image_url, safe=":/?&=%")
QuoteChar(c) ==
  IF c \in ALNUM \cup {"_", ".", "-", "~"} \cup {":", "/", "?", "&", "=", "%"}
  THEN <<c>>
  ELSE CASE c = " " -> <<"%", "2", "0">>
         [] c = "\n" -> <<"%", "0", "A">>
         [] c = "\t" -> <<"%", "0", "9">>
         [] c = "#" -> <<"%", "2", "3">>
         [] c = "+" -> <<"%", "2", "B">>

RECURSIVE Quote(_)
Quote(s) == IF s = <<>> THEN <<>> ELSE QuoteChar(Head(s)) \o Quote(Tail(s))

\* textContains: label occurs in text.
IsSubstr(label, text) ==
  \E i \in 0..(Len(text) - Len(label)) : SubSeq(text, i + 1, i + Len(label)) = label

\* The first element of texts (screen order) with the property, None when none.
FirstExact(texts, label) ==
  LET hits == {i \in 1..Len(texts) : texts[i] = label}
  IN IF hits = {} THEN None ELSE texts[MinOf(hits)]

FirstContains(texts, label) ==
  LET hits == {i \in 1..Len(texts) : IsSubstr(label, texts[i])}
  IN IF hits = {} THEN None ELSE texts[MinOf(hits)]

\* for label in labels: d(text=label).click_exists or
\* d(textContains=label).click_exists: the text of the element clicked by
\* the first check that succeeds, None when every check fails.
RECURSIVE ClickFirstLabel(_, _)
ClickFirstLabel(labels, texts) ==
  IF labels = <<>> THEN None
  ELSE LET exact == FirstExact(texts, Head(labels))
           part == FirstContains(texts, Head(labels))
       IN IF exact # None THEN exact
          ELSE IF part # None THEN part
          ELSE ClickFirstLabel(Tail(labels), texts)

save_labels == <<L_DownloadImage, L_SaveImage, L_SaveImageAs, L_Download>>

album_labels == <<L_Downloads, L_Download, L_Recents, L_Recent, L_Photos>>

allow_texts == <<L_Allow, L_ALLOW, L_WhileUsing, L_AllowAlways>>

\* _allow_if_prompted: the texts it taps, in order.
AllowTaps(texts) ==
  SelectSeq(allow_texts, LAMBDA a : \E i \in 1..Len(texts) : texts[i] = a)

\* _switch_gallery_album: the elements it taps, in order.
AlbumTaps(s) ==
  LET opener == IF s.arrow THEN <<"com.twitter.android:id/drop_down_arrow">>
                ELSE IF s.gallery THEN <<L_Gallery>>
                ELSE <<>>
      label == ClickFirstLabel(album_labels, s.texts)
  IN IF opener = <<>> THEN <<>>
     ELSE IF label = None THEN opener
     ELSE opener \o <<label>>

\* The buttons attach_latest_image_to_tweet looks for, in order.
media_buttons ==
  << <<"resourceId", "com.twitter.android:id/add_media">>,
     <<"resourceId", "com.twitter.android:id/gallery">>,
     <<"resourceId", "com.twitter.android:id/attachment_button">>,
     <<"description", "Photos">>,
     <<"descriptionContains", "Add photo">>,
     <<"descriptionContains", "Add media">> >>

\* Mutant of FirstMediaButton: without the for-else, the first button is
\* tapped when none is on the screen.
FirstMediaButtonDefault(present) ==
  IF present = {} THEN 1 ELSE MinOf(present)

\* The first of media_buttons on the screen (a set of indices), 0 when none.
FirstMediaButton(present) ==
  IF present = {} THEN 0 ELSE MinOf(present)

\* ------------------------------------------------------- media picker
thumb_ids ==
  <<"com.twitter.android:id/asset_thumbnail",
    "com.twitter.android:id/thumbnail",
    "com.twitter.android:id/gallery_grid",
    "com.google.android.documentsui:id/icon_thumb",
    "com.android.documentsui:id/icon_thumb">>

GALLERY_GRID == "com.twitter.android:id/gallery_grid"

\* info.get("bounds", {}) without left or top.
NoBounds == [top |-> -1, left |-> -1]

Bounds(top, left) == [top |-> top, left |-> left]

NoThumbs == [id \in {thumb_ids[i] : i \in 1..Len(thumb_ids)} |-> <<>>]

\* A picker screen: whether the media rail is shown and how many images it
\* holds, the elements of each thumbnail id (by their bounds), the image
\* nodes inside the gallery grid, and the clickable flags of the ImageViews.
Picker(rail, rail_images, thumbs, grid_images, image_views) ==
  [rail |-> rail, rail_images |-> rail_images, thumbs |-> thumbs,
   grid_images |-> grid_images, image_views |-> image_views]

PickerScreens ==
  { Picker(TRUE, 2, NoThumbs, <<>>, <<>>),
    Picker(TRUE, 0, [NoThumbs EXCEPT !["com.twitter.android:id/asset_thumbnail"] =
                                        <<Bounds(0, 0), Bounds(0, 1)>>], <<>>, <<>>),
    Picker(FALSE, 0, [NoThumbs EXCEPT ![GALLERY_GRID] = <<Bounds(0, 0)>>],
           <<Bounds(2, 1), NoBounds, Bounds(1, 2), Bounds(1, 1)>>, <<TRUE>>),
    Picker(FALSE, 0, [NoThumbs EXCEPT ![GALLERY_GRID] = <<Bounds(3, 0), Bounds(1, 0)>>],
           <<NoBounds>>, <<>>),
    Picker(FALSE, 0, [NoThumbs EXCEPT ![GALLERY_GRID] = <<NoBounds>>,
                                      !["com.android.documentsui:id/icon_thumb"] = <<Bounds(5, 5)>>],
           <<>>, <<>>),
    Picker(FALSE, 0, [NoThumbs EXCEPT ![GALLERY_GRID] = <<NoBounds>>], <<>>, <<FALSE, TRUE>>),
    Picker(FALSE, 0, NoThumbs, <<>>, <<FALSE>>),
    Picker(FALSE, 0, NoThumbs, <<>>, [i \in 1..(IMAGEVIEW_SCAN + 1) |-> i > IMAGEVIEW_SCAN]) }

NoTile == [by |-> "none", idx |-> 0]

Tile(by, idx) == [by |-> by, idx |-> idx]

\* candidates.sort(key=(top, left)); candidates[0]: the index of the first
\* element, in screen order, with the least (top, left); 0 when no element
\* has bounds.
TopLeft(elems) ==
  LET c == {i \in 1..Len(elems) : elems[i] # NoBounds}
      Before(i, j) == \/ elems[i].top < elems[j].top
                      \/ elems[i].top = elems[j].top /\ elems[i].left < elems[j].left
                      \/ elems[i] = elems[j] /\ i <= j
  IN IF c = {} THEN 0 ELSE CHOOSE i \in c : \A j \in c : Before(i, j)

\* The loop over thumb_ids, from index k on.
RECURSIVE TapThumb(_, _)
TapThumb(s, k) ==
  IF k > Len(thumb_ids) THEN NoTile
  ELSE LET id == thumb_ids[k]
           thumbs == s.thumbs[id]
       IN IF Len(thumbs) = 0 THEN TapThumb(s, k + 1)
          ELSE IF id = GALLERY_GRID
          THEN IF s.grid_images # <<>> /\ TopLeft(s.grid_images) # 0
               THEN Tile("grid image", TopLeft(s.grid_images))
               ELSE IF TopLeft(thumbs) # 0
               THEN Tile("grid child", TopLeft(thumbs))
               ELSE TapThumb(s, k + 1)
          ELSE Tile(id, 1)

\* The first clickable ImageView among the first ten, 0 when none.
FirstClickable(views) ==
  LET c == {i \in 1..Len(Take(views, IMAGEVIEW_SCAN)) : views[i]}
  IN IF c = {} THEN 0 ELSE MinOf(c)

\* _tap_first_visible_image: the tile it taps, NoTile when it raises.
TapFirstVisibleImage(s) ==
  IF s.rail /\ s.rail_images > 0 THEN Tile("media rail", 1)
  ELSE IF TapThumb(s, 1) # NoTile THEN TapThumb(s, 1)
  ELSE IF FirstClickable(s.image_views) # 0
  THEN Tile("ImageView", FirstClickable(s.image_views))
  ELSE NoTile

\* ----------------------------------------------------- browser screens
UrlBarScreens == [url_bar : BOOLEAN, search : BOOLEAN, focused : BOOLEAN]

\* What open_context_menu meets: whether a WebView is on the screen, and
\* whether the context menu shows up within the wait.
LongPressScreens == [webview : BOOLEAN, menu : BOOLEAN]

MenuTexts ==
  { <<>>, <<L_CopyImage>>, <<L_OpenNewTab, L_CopyImage>>,
    <<L_OpenNewTab, L_DownloadImage>>, <<L_SaveToGallery>> }

MenuScreens == [menu_list : BOOLEAN, texts : MenuTexts]

AllowScreens == { <<>>, <<L_Deny, L_Allow>>, <<L_WhileUsing, L_AllowAlways>>, <<L_ALLOW>> }

AlbumScreens ==
  [arrow : BOOLEAN, gallery : BOOLEAN,
   texts : { <<>>, <<L_Camera>>, <<L_Camera, L_Downloads>>, <<L_AllPhotos>> }]

\* What the text-entry step meets. An android.widget.EditText also matches
\* the class pattern of the readiness poll.
TextScreens ==
  {s \in [tweet_text : BOOLEAN, edit_text : BOOLEAN, any_input : BOOLEAN] :
     s.edit_text => s.any_input}

NoScreen == [step |-> "none"]

Seen(step, screen, taps) == [step |-> step, screen |-> screen, taps |-> taps]

\* ----------------------------------------------------------------- Init
Init ==
  /\ dry_run \in BOOLEAN
  /\ lm_set \in BOOLEAN
  /\ serial_set \in BOOLEAN
  /\ listing \in Listings
  /\ attempted = <<>>
  /\ frames = <<>>
  /\ article_url = None
  /\ article_page = NoPage
  /\ content_list = <<>>
  /\ result = [title |-> None, content |-> None, image_url |-> None, article_url |-> None]
  /\ tweet_body = None
  /\ final_text = None
  /\ log = <<>>
  /\ stdout = <<>>
  /\ pc = "start"
  /\ err = ""
  /\ inputs_found = FALSE
  /\ clicked = FALSE
  /\ menu_tries = 0
  /\ seen = NoScreen

\* ------------------------------------------------- fetch_random_article
\* main up to the call of fetch_random_article(BASE_URL, CATEGORY_PATH).
MainStart ==
  /\ pc = "start"
  /\ Printed(<<S_Scraping>>)
  /\ pc' = "fetch_listing"
  /\ UNCHANGED <<config, fetchState, postState, log, err, deviceState>>

\* One call of fetch_random_article up to the article request: the listing
\* request, the filter, the random pick and the append to attempted.
FetchListing ==
  /\ pc = "fetch_listing"
  /\ log' = Append(log, Call("GET", "listing", BASE_URL \o CATEGORY_PATH))
  /\ \/ /\ Raise("HTTPError")
        /\ UNCHANGED fetchState
     \/ LET links == FilterLinks(listing, attempted)
        IN /\ frames' = Append(frames, [attempted |-> attempted, links |-> links])
           /\ IF links = <<>>
              THEN /\ result' = NoLinksResult
                   /\ pc' = "main_check"
                   /\ UNCHANGED <<attempted, article_url, article_page, content_list, err>>
              ELSE \E i \in 1..Len(links) :
                     /\ article_url' = BASE_URL \o links[i]
                     /\ attempted' = AppendAttempted(attempted, BASE_URL \o links[i])
                     /\ pc' = "fetch_article"
                     /\ UNCHANGED <<result, article_page, content_list, err>>
  /\ UNCHANGED <<config, postState, stdout, deviceState>>

\* The rest of the call: the article request, the extraction, and either the
\* recursive call (no content block) or the return of the tuple.
FetchArticle ==
  /\ pc = "fetch_article"
  /\ log' = Append(log, Call("GET", "article", article_url))
  /\ \/ /\ Raise("HTTPError")
        /\ UNCHANGED <<result, article_page, content_list>>
     \/ \E page \in Pages :
          /\ article_page' = page
          /\ content_list' = ContentList(page)
          /\ IF BadPick(page)
             THEN /\ pc' = "fetch_listing"
                  /\ UNCHANGED <<result, err>>
             ELSE /\ result' = ArticleResult(page, article_url)
                  /\ pc' = "main_check"
                  /\ UNCHANGED err
  /\ UNCHANGED <<config, attempted, frames, article_url, postState, stdout, deviceState>>

\* ----------------------------------------------------------------- main
\* What main prints between the return of fetch_random_article and the
\* completion request.
MainCheckLines(res, dry) ==
  <<S_GotArticle \o res.title \o <<" ", "(">> \o res.article_url \o <<")">>>>
  \o (IF Truthy(res.image_url)
      THEN <<S_ImageUrl \o res.image_url>> ELSE <<>>)
  \o (IF dry
      THEN << <<"\n">> \o Rep("=", 60), S_DryScraped, Rep("=", 60),
              S_Title \o res.title,
              S_ArticleUrl \o res.article_url,
              S_NlImageUrl \o (IF Truthy(res.image_url)
                               THEN res.image_url ELSE S_NoneWord),
              S_ContentHdr \o Rep("-", 60),
              res.content,
              Rep("-", 60) >>
      ELSE <<>>)
  \o <<S_Generating>>

\* if not (title and content and article_url): raise; else the prints that
\* follow, up to the call of generate_tweet_from_lmstudio.
MainCheck ==
  /\ pc = "main_check"
  /\ IF ~(Truthy(result.title) /\ Truthy(result.content) /\ Truthy(result.article_url))
     THEN /\ Raise("Failed to scrape article content.")
          /\ UNCHANGED stdout
     ELSE /\ Printed(MainCheckLines(result, dry_run))
          /\ pc' = "generate"
          /\ UNCHANGED err
  /\ UNCHANGED <<config, fetchState, postState, log, deviceState>>

\* generate_tweet_from_lmstudio: the configuration check, the completion
\* request and the cut of the reply to char_budget.
GenerateFrom(replies) ==
  /\ pc = "generate"
  /\ IF ~lm_set
     THEN /\ Raise("Missing LMSTUDIO_BASE_URL or LMSTUDIO_MODEL environment variables.")
          /\ UNCHANGED <<log, tweet_body>>
     ELSE /\ log' = Append(log, Call("LM", "chat.completions", result.content))
          /\ \/ /\ Raise("APIError")
                /\ UNCHANGED tweet_body
             \/ \E raw \in replies :
                  /\ tweet_body' = GenerateTweet(raw)
                  /\ pc' = "compose"
                  /\ UNCHANGED err
  /\ UNCHANGED <<config, fetchState, final_text, stdout, deviceState>>

\* The call of generate_tweet_from_lmstudio in a run of the whole program.
Generate == GenerateFrom(ShortReplies)

\* attach_latest_image=bool(image_url)
AttachRequested == Truthy(result.image_url)

\* Mutant of AfterCompose: the image download is not under the dry-run test.
AfterComposeDownloadFirst(dry, attach) ==
  IF attach THEN "dl_connect" ELSE IF dry THEN "done" ELSE "post_connect"

\* Mutant of AfterCompose: the image download is left out.
AfterComposeNoDownload(dry, attach) ==
  IF dry THEN "done" ELSE "post_connect"

\* Where main goes once final_text is composed: to the end in dry-run mode,
\* else to download_image_via_brave when an image URL was found, else to
\* post_to_x_via_android.
AfterCompose(dry, attach) ==
  IF dry THEN "done" ELSE IF attach THEN "dl_connect" ELSE "post_connect"

\* main from the composition of final_text to the first device call (or, in
\* dry-run mode, to the end).
Compose ==
  /\ pc = "compose"
  /\ final_text' = ComposeFinal(tweet_body, result.article_url)
  /\ IF dry_run
     THEN Printed(<< <<"\n">> \o Rep("=", 60), S_DryPost, Rep("=", 60),
                     S_TweetBody \o Digits(Len(tweet_body)) \o S_LenClose,
                     tweet_body,
                     S_FinalPost \o Digits(Len(final_text')) \o S_LenClose,
                     final_text',
                     Rep("=", 60), S_DrySkip, S_Done >>)
     ELSE Printed(<<S_Preview, final_text', S_PreviewEnd>>
                  \o (IF AttachRequested THEN <<S_Downloading>> ELSE <<S_Posting>>))
  /\ pc' = AfterCompose(dry_run, AttachRequested)
  /\ UNCHANGED <<config, fetchState, tweet_body, log, err, deviceState>>


\* --------------------------------------------- download_image_via_brave
BRAVE == "com.brave.browser"
TWITTER == "com.twitter.android"

NO_SERIAL == "Set GALAXY_IP to your device serial/IP before running."

\* The serial check, the connection and the launch of the browser.
DlConnect ==
  /\ pc = "dl_connect"
  /\ IF ~serial_set
     THEN /\ Raise(NO_SERIAL)
          /\ UNCHANGED log
     ELSE /\ log' = log \o << Call("connect", "download_image_via_brave", <<>>),
                              Call("screen_on", "", <<>>),
                              Call("press", "home", <<>>),
                              Call("app_start", BRAVE, <<>>),
                              Call("app_wait", BRAVE, <<>>) >>
          /\ pc' = "dl_url_bar"
          /\ UNCHANGED err
  /\ UNCHANGED <<config, fetchState, postState, stdout, deviceState>>

\* Focus the URL bar, enter the quoted image URL and press enter.
DlUrlBar ==
  /\ pc = "dl_url_bar"
  /\ \E s \in UrlBarScreens :
       LET bar == s.url_bar \/ s.search
       IN /\ seen' = Seen("url_bar", s, IF bar THEN <<"url_bar">> ELSE <<>>)
          /\ IF bar \/ s.focused
             THEN /\ log' = log \o << Call("set_text", BRAVE, Quote(result.image_url)),
                                      Call("press", "enter", <<>>) >>
                  /\ pc' = "dl_menu"
                  /\ UNCHANGED err
             ELSE /\ Raise("URL bar not found in Brave. Inspect with weditor.")
                  /\ UNCHANGED log
  /\ UNCHANGED <<config, fetchState, postState, stdout, inputs_found, clicked, menu_tries>>

\* open_context_menu: the long press and the wait for the menu.
OpenContextMenu(s) ==
  /\ log' = Append(log, Call("long_click", "image", <<>>))
  /\ menu_tries' = menu_tries + 1
  /\ seen' = Seen("context_menu", s, <<IF s.webview THEN "WebView center" ELSE "window center">>)

\* if not open_context_menu(): sleep; if not open_context_menu(): raise
DlMenu ==
  /\ pc = "dl_menu"
  /\ \E s \in LongPressScreens :
       /\ OpenContextMenu(s)
       /\ IF s.menu
          THEN pc' = "dl_save" /\ UNCHANGED err
          ELSE IF menu_tries = 0
          THEN pc' = "dl_menu" /\ UNCHANGED err
          ELSE Raise("Brave image context menu did not appear.")
  /\ UNCHANGED <<config, fetchState, postState, stdout, inputs_found, clicked>>

\* The first pass over save_labels, and the tap on "Open image in new tab"
\* when nothing was clicked.
DlSave ==
  /\ pc = "dl_save"
  /\ \E s \in MenuScreens :
       LET hit == IF s.menu_list THEN ClickFirstLabel(save_labels, s.texts) ELSE None
           tab == hit = None /\ (\E i \in 1..Len(s.texts) : s.texts[i] = L_OpenNewTab)
       IN /\ clicked' = (hit # None)
          /\ seen' = Seen("save", s, (IF hit # None THEN <<hit>> ELSE <<>>)
                                     \o (IF tab THEN <<L_OpenNewTab>> ELSE <<>>))
          /\ log' = IF hit # None THEN Append(log, Call("click", "save", <<>>)) ELSE log
          /\ pc' = IF tab THEN "dl_menu_tab" ELSE "dl_save_again"
  /\ UNCHANGED <<config, fetchState, postState, stdout, err, inputs_found, menu_tries>>

\* open_context_menu after "Open image in new tab".
DlMenuTab ==
  /\ pc = "dl_menu_tab"
  /\ \E s \in LongPressScreens :
       /\ OpenContextMenu(s)
       /\ IF s.menu
          THEN pc' = "dl_save_again" /\ UNCHANGED err
          ELSE Raise("Brave image context menu did not appear after opening new tab.")
  /\ UNCHANGED <<config, fetchState, postState, stdout, inputs_found, clicked>>

\* The second pass over save_labels and the check of clicked.
DlSaveAgain ==
  /\ pc = "dl_save_again"
  /\ \E texts \in MenuTexts :
       LET hit == ClickFirstLabel(save_labels, texts)
       IN /\ clicked' = (clicked \/ hit # None)
          /\ seen' = Seen("save", [menu_list |-> TRUE, texts |-> texts],
                          IF hit # None THEN <<hit>> ELSE <<>>)
          /\ log' = IF hit # None THEN Append(log, Call("click", "save", <<>>)) ELSE log
          /\ IF clicked'
             THEN pc' = "dl_allow" /\ UNCHANGED err
             ELSE Raise("Save/Download image option not found in Brave context menu.")
  /\ UNCHANGED <<config, fetchState, postState, stdout, inputs_found, menu_tries>>

\* _allow_if_prompted(d), the return to main and main up to the call of
\* post_to_x_via_android.
DlAllow ==
  /\ pc = "dl_allow"
  /\ \E texts \in AllowScreens : seen' = Seen("permission", texts, AllowTaps(texts))
  /\ clicked' = FALSE
  /\ menu_tries' = 0
  /\ Printed(<<S_Posting>>)
  /\ pc' = "post_connect"
  /\ UNCHANGED <<config, fetchState, postState, log, err, inputs_found>>

\* ------------------------------------------------- post_to_x_via_android
\* The serial check, the connection, the stop and the relaunch of the app.
PostConnect ==
  /\ pc = "post_connect"
  /\ IF ~serial_set
     THEN /\ Raise(NO_SERIAL)
          /\ UNCHANGED log
     ELSE /\ log' = log \o << Call("connect", "post_to_x_via_android", <<>>),
                              Call("app_stop", TWITTER, <<>>),
                              Call("screen_on", "", <<>>),
                              Call("press", "home", <<>>),
                              Call("app_start", TWITTER, <<>>),
                              Call("app_wait", TWITTER, <<>>) >>
          /\ pc' = "post_compose"
          /\ UNCHANGED err
  /\ UNCHANGED <<config, fetchState, postState, stdout, deviceState>>

\* d(resourceId=...).click() on an element that is not there.
NOT_FOUND == "UiObjectNotFoundError"

\* d(resourceId="com.twitter.android:id/composer_write").click(), the first
\* time (pc = "post_compose") and the second (pc = "post_compose_again").
PostCompose ==
  /\ pc \in {"post_compose", "post_compose_again"}
  /\ \E present \in BOOLEAN :
       /\ seen' = Seen("composer_write", present, IF present THEN <<"composer_write">> ELSE <<>>)
       /\ IF present
          THEN /\ log' = Append(log, Call("click", "composer_write", <<>>))
               /\ pc' = IF pc = "post_compose" THEN "post_compose_again" ELSE "post_poll"
               /\ UNCHANGED err
          ELSE /\ Raise(NOT_FOUND)
               /\ UNCHANGED log
  /\ UNCHANGED <<config, fetchState, postState, stdout, inputs_found, clicked, menu_tries>>

\* while wait_time < max_wait, with wait_time += 0.5 after a probe that
\* finds nothing: the most probes the loop makes.
MaxProbes == (max_wait * 10) \div POLL_STEP_TENTHS

\* The readiness poll: the input elements show up at probe number k + 1
\* (k sleeps of half a second went before), or never within max_wait.
PostPoll ==
  /\ pc = "post_poll"
  /\ \E k \in 0..MaxProbes :
       /\ inputs_found' = (k < MaxProbes)
       /\ seen' = Seen("input_poll", k, <<>>)
  /\ pc' = "post_text"
  /\ UNCHANGED <<config, fetchState, postState, log, stdout, err, clicked, menu_tries>>

\* Mutant of TextTarget: the generic class is tried before the resource id.
TextTargetClassFirst(s, found) ==
  IF s.edit_text THEN "android.widget.EditText"
  ELSE IF s.tweet_text THEN "com.twitter.android:id/tweet_text"
  ELSE IF found /\ s.any_input THEN "all_inputs[0]"
  ELSE ""

\* The element the text goes into: "" when the field is not found.
TextTarget(s, found) ==
  IF s.tweet_text THEN "com.twitter.android:id/tweet_text"
  ELSE IF s.edit_text THEN "android.widget.EditText"
  ELSE IF found /\ s.any_input THEN "all_inputs[0]"
  ELSE ""

\* Mutant of AfterText: the image is never attached.
AfterTextSubmit(attach) == "post_submit"

\* What follows the text entry.
AfterText(attach) == IF attach THEN "att_media" ELSE "post_submit"

\* Enter text.
PostText ==
  /\ pc = "post_text"
  /\ \E s \in TextScreens :
       LET target == TextTarget(s, inputs_found)
       IN /\ seen' = Seen("text", s, IF target = "" THEN <<>> ELSE <<target>>)
          /\ IF target # ""
             THEN /\ log' = Append(log, Call("set_text", target, final_text))
                  /\ pc' = AfterText(AttachRequested)
                  /\ UNCHANGED err
             ELSE /\ Raise("Tweet text field not found. Inspect the editor element.")
                  /\ UNCHANGED log
  /\ UNCHANGED <<config, fetchState, postState, stdout, inputs_found, clicked, menu_tries>>

\* attach_latest_image_to_tweet: the media button.
AttMedia ==
  /\ pc = "att_media"
  /\ \E present \in SUBSET (1..Len(media_buttons)) :
       LET b == FirstMediaButton(present)
       IN /\ Cardinality(present) <= 1
          /\ seen' = Seen("media_button", present, IF b = 0 THEN <<>> ELSE <<media_buttons[b]>>)
          /\ IF b # 0
             THEN /\ log' = Append(log, Call("click", "media_button", <<>>))
                  /\ pc' = "att_allow"
                  /\ UNCHANGED err
             ELSE /\ Raise("Media button not found. Inspect the compose toolbar.")
                  /\ UNCHANGED log
  /\ UNCHANGED <<config, fetchState, postState, stdout, inputs_found, clicked, menu_tries>>

\* _allow_if_prompted(d)
AttAllow ==
  /\ pc = "att_allow"
  /\ \E texts \in AllowScreens : seen' = Seen("permission", texts, AllowTaps(texts))
  /\ pc' = "att_album"
  /\ UNCHANGED <<config, fetchState, postState, log, stdout, err, inputs_found, clicked, menu_tries>>

\* _switch_gallery_album(d)
AttAlbum ==
  /\ pc = "att_album"
  /\ \E s \in AlbumScreens : seen' = Seen("album", s, AlbumTaps(s))
  /\ pc' = "att_tile"
  /\ UNCHANGED <<config, fetchState, postState, log, stdout, err, inputs_found, clicked, menu_tries>>

\* _tap_first_visible_image(d)
AttTile ==
  /\ pc = "att_tile"
  /\ \E s \in PickerScreens :
       LET tile == TapFirstVisibleImage(s)
       IN /\ seen' = Seen("tile", s, IF tile = NoTile THEN <<>> ELSE <<tile>>)
          /\ IF tile # NoTile
             THEN /\ log' = Append(log, Call("click", "tile", <<>>))
                  /\ pc' = "post_submit"
                  /\ UNCHANGED err
             ELSE /\ Raise("No image thumbnail found in the picker. Inspect the gallery view.")
                  /\ UNCHANGED log
  /\ UNCHANGED <<config, fetchState, postState, stdout, inputs_found, clicked, menu_tries>>

\* Tap Post, the return to main and its last print.
PostSubmit ==
  /\ pc = "post_submit"
  /\ \E present \in BOOLEAN :
       /\ seen' = Seen("button_tweet", present, IF present THEN <<"button_tweet">> ELSE <<>>)
       /\ IF present
          THEN /\ log' = Append(log, Call("click", "button_tweet", <<>>))
               /\ Printed(<<S_Done>>)
               /\ pc' = "done"
               /\ inputs_found' = FALSE
               /\ UNCHANGED err
          ELSE /\ Raise(NOT_FOUND)
               /\ UNCHANGED <<log, stdout, inputs_found>>
  /\ UNCHANGED <<config, fetchState, postState, clicked, menu_tries>>


\* ------------------------------------------------------- specification
Next ==
  \/ MainStart
  \/ FetchListing
  \/ FetchArticle
  \/ MainCheck
  \/ Generate
  \/ Compose
  \/ DlConnect
  \/ DlUrlBar
  \/ DlMenu
  \/ DlSave
  \/ DlMenuTab
  \/ DlSaveAgain
  \/ DlAllow
  \/ PostConnect
  \/ PostCompose
  \/ PostPoll
  \/ PostText
  \/ AttMedia
  \/ AttAllow
  \/ AttAlbum
  \/ AttTile
  \/ PostSubmit

Spec == Init /\ [][Next]_vars

\* The composition of the post on its own: main from the call of
\* generate_tweet_from_lmstudio, entered as a run whose first pick had
\* content leaves it, with a reply of any length.
ComposeStart(page, href, dry, serial) ==
  LET url == BASE_URL \o href
      res == ArticleResult(page, url)
  IN /\ dry_run = dry
     /\ lm_set = TRUE
     /\ serial_set = serial
     /\ listing = <<href>>
     /\ attempted = <<url>>
     /\ frames = <<[attempted |-> <<>>, links |-> <<href>>]>>
     /\ article_url = url
     /\ article_page = page
     /\ content_list = ContentList(page)
     /\ result = res
     /\ tweet_body = None
     /\ final_text = None
     /\ log = <<Call("GET", "listing", BASE_URL \o CATEGORY_PATH), Call("GET", "article", url)>>
     /\ stdout = <<S_Scraping>> \o MainCheckLines(res, dry)
     /\ pc = "generate"
     /\ err = ""
     /\ inputs_found = FALSE
     /\ clicked = FALSE
     /\ menu_tries = 0
     /\ seen = NoScreen

InitCompose ==
  \E page \in {PageHerb, PageManyH3}, href \in Hrefs, dry \in BOOLEAN, serial \in BOOLEAN :
    ComposeStart(page, href, dry, serial)

GenerateAny == GenerateFrom(LmReplies)

NextCompose ==
  \/ GenerateAny
  \/ Compose

SpecCompose == InitCompose /\ [][NextCompose]_vars

\* ================================================================ claims
Range(s) == {s[i] : i \in 1..Len(s)}

IsPrefix(a, b) == Len(a) <= Len(b) /\ SubSeq(b, 1, Len(a)) = a

EndsWith(s, suffix) ==
  Len(suffix) <= Len(s) /\ SubSeq(s, Len(s) - Len(suffix) + 1, Len(s)) = suffix

\* The resolved URLs of the links of the listing page.
ListedUrls == {BASE_URL \o listing[i] : i \in 1..Len(listing)}

\* The never-attempted candidates of call number k of fetch_random_article.
Candidates(k) == ListedUrls \ Range(frames[k].attempted)

\* The article requests made so far, in order.
ArticleGets == SelectSeq(log, LAMBDA e : e.op = "GET" /\ e.arg = "article")

\* The device calls logged so far, in order.
DeviceCalls == SelectSeq(log, LAMBDA e : e.op \notin {"GET", "LM"})

DevicePcs ==
  {"dl_connect", "dl_url_bar", "dl_menu", "dl_save", "dl_menu_tab", "dl_save_again",
   "dl_allow", "post_connect", "post_compose", "post_compose_again", "post_poll",
   "post_text", "att_media", "att_allow", "att_album", "att_tile", "post_submit"}

SCRAPE_FAILED == "Failed to scrape article content."

\* ---------------------------------------------------------------- C1
\* C1: the final post text handed to the publish step (or printed in
\* dry-run) is never longer than the ceiling, and when the body plus the
\* appended URL is longer than the ceiling, the final text ends with "..."
\* and is exactly as long as the ceiling.
C1_FinalTextWithinCeiling ==
  final_text # None =>
    LET joined == Strip(tweet_body \o <<"\n", "\n">> \o result.article_url)
    IN /\ Len(final_text) <= FINAL_LIMIT
       /\ Len(joined) > FINAL_LIMIT =>
            EndsWith(final_text, <<".", ".", ".">>) /\ Len(final_text) = FINAL_LIMIT

C3_NoCandidatesIsFatal ==
  (frames # <<>> /\ Candidates(Len(frames)) = {}) =>
    /\ result = NoLinksResult
    /\ log[Len(log)] = Call("GET", "listing", BASE_URL \o CATEGORY_PATH)
    /\ Len(ArticleGets) = Len(frames[Len(frames)].attempted)
    /\ \A i \in 1..Len(log) : log[i].op = "GET"
    /\ seen = NoScreen
    /\ pc \in {"main_check", "raised"}
    /\ pc = "raised" => err = SCRAPE_FAILED

\* A listing with links, all of them attempted, ended the run.
C3_Witness ==
  /\ pc = "raised" /\ err = SCRAPE_FAILED
  /\ result = NoLinksResult
  /\ listing # <<>> /\ ListedUrls \subseteq Range(attempted)

\* ---------------------------------------------------------------- C4
\* The page has no recognized heading, or no sub-heading after the first one.
NoSubHeadings(page) ==
  LET n == page.nodes
      h2 == {i \in 1..Len(n) : n[i].name = "h2" /\ n[i].id \in RECOGNIZED_H2}
  IN \/ h2 = {}
     \/ \A j \in 1..Len(n) : n[j].name = "h3" => j < MinOf(h2)

C4Step ==
  \* no URL is ever removed from attempted
  /\ IsPrefix(attempted, attempted')
  \* an article without content blocks makes the call recurse, not return
  /\ (pc = "fetch_article" /\ pc' # "raised" /\ NoSubHeadings(article_page'))
       => (pc' = "fetch_listing" /\ result' = result)
  \* the recursive call enters with attempted one new URL longer
  /\ (pc = "fetch_listing" /\ frames # <<>> /\ Len(frames') = Len(frames) + 1)
       => LET prev == frames[Len(frames)].attempted
              cur == frames'[Len(frames')].attempted
          IN /\ Len(cur) = Len(prev) + 1
             /\ IsPrefix(prev, cur)
             /\ cur[Len(cur)] \notin Range(prev)

\* C4: when the picked article yields no content block (recognized heading
\* absent, or no sub-heading after it) the call recurses instead of
\* returning, each recursive call enters with attempted exactly one new URL
\* longer than the call before it, and no URL is ever removed from attempted.
C4_RecursionGrowsAttempted == [][C4Step]_vars

\* A recursive call has picked its article after a pick without content.
C4_Witness ==
  /\ pc = "fetch_article" /\ Len(frames) = 2
  /\ NoSubHeadings(article_page) /\ article_page # NoPage
  /\ Len(attempted) = 2

\* ---------------------------------------------------------------- C5
\* C5: in dry-run mode no device call is made and no device step is
\* entered; once the scrape and the completion request have succeeded the
\* run goes on to its end without an error, and at its end the title line,
\* the URL line and the final text have been printed.
C5_DryRunNoDevice ==
  dry_run =>
    /\ DeviceCalls = <<>> /\ seen = NoScreen /\ pc \notin DevicePcs
    /\ tweet_body # None => pc \in {"compose", "done"} /\ err = ""
    /\ pc = "done" =>
         /\ (S_Title \o result.title) \in Range(stdout)
         /\ (S_ArticleUrl \o result.article_url) \in Range(stdout)
         /\ final_text # None /\ final_text \in Range(stdout)

\* A dry run with an image URL has ended.
C5_Witness == dry_run /\ pc = "done" /\ Truthy(result.image_url)

\* ---------------------------------------------------------------- C6
TextTargets ==
  {"com.twitter.android:id/tweet_text", "android.widget.EditText", "all_inputs[0]"}

\* The logged calls of post_to_x_via_android.
PostLog ==
  LET starts == {i \in 1..Len(log) :
                   log[i] = Call("connect", "post_to_x_via_android", <<>>)}
  IN IF starts = {} THEN <<>> ELSE SubSeq(log, MinOf(starts), Len(log))

\* The calls of a complete run of post_to_x_via_android, in order.
PublishOrder(attach, target) ==
  << Call("connect", "post_to_x_via_android", <<>>),
     Call("app_stop", TWITTER, <<>>),
     Call("screen_on", "", <<>>),
     Call("press", "home", <<>>),
     Call("app_start", TWITTER, <<>>),
     Call("app_wait", TWITTER, <<>>),
     Call("click", "composer_write", <<>>),
     Call("click", "composer_write", <<>>),
     Call("set_text", target, final_text) >>
  \o (IF attach
      THEN << Call("click", "media_button", <<>>), Call("click", "tile", <<>>) >>
      ELSE <<>>)
  \o << Call("click", "button_tweet", <<>>) >>

\* C6: the calls of post_to_x_via_android are always an initial part of the
\* one fixed order connect, stop and relaunch, wait, compose tap twice,
\* text entry, media button and tile (only when an image is requested),
\* submit: no step is repeated, and submit comes after the text entry and,
\* when an image is requested, after the tile tap.
C6_PublishOrderIsLinear ==
  /\ \E target \in TextTargets : IsPrefix(PostLog, PublishOrder(AttachRequested, target))
  /\ (pc = "done" /\ ~dry_run) =>
       \E target \in TextTargets : PostLog = PublishOrder(AttachRequested, target)

\* A post with an image was submitted.
C6_Witness ==
  /\ pc = "done" /\ ~dry_run /\ AttachRequested
  /\ log[Len(log)] = Call("click", "button_tweet", <<>>)

\* ---------------------------------------------------------------- C7
\* The browser steps: open the browser, navigate, long press, save.
IsBrowserStep(e) ==
  \/ e.op \in {"app_start", "app_wait", "set_text"} /\ e.arg = BRAVE
  \/ e.op = "press" /\ e.arg = "enter"
  \/ e.op = "long_click"
  \/ e.op = "click" /\ e.arg = "save"

BrowserIdx == {i \in 1..Len(log) : IsBrowserStep(log[i])}

SaveIdx == {i \in 1..Len(log) : log[i] = Call("click", "save", <<>>)}

TextIdx == {i \in 1..Len(log) : log[i].op = "set_text" /\ log[i].arg \in TextTargets}

MediaIdx == {i \in 1..Len(log) : log[i] = Call("click", "media_button", <<>>)}

PublishIdx ==
  {i \in 1..Len(log) : \E j \in 1..i : log[j] = Call("connect", "post_to_x_via_android", <<>>)}

\* C7 as stated: every browser step comes after the post text was entered
\* into the composer and before the media picker is opened.
C7_BrowserStepsInsidePublish ==
  \A i \in BrowserIdx :
    /\ \E j \in TextIdx : j < i
    /\ \A m \in MediaIdx : i < m

\* C7 as amended: the browser steps happen only when an image URL was found
\* (and not in dry-run), all of them before the first call of the publish
\* flow; the publish flow starts only once the save action was chosen, and
\* its media picker is opened after its text entry.
C7_BrowserStepsBeforePublish ==
  /\ BrowserIdx # {} => AttachRequested /\ ~dry_run
  /\ \A i \in BrowserIdx : \A j \in PublishIdx : i < j
  /\ (PublishIdx # {} /\ AttachRequested) => \E i \in SaveIdx : \A j \in PublishIdx : i < j
  /\ \A m \in MediaIdx : (\E j \in TextIdx : j < m) /\ (\E i \in SaveIdx : i < m)

\* The media picker was opened.
C7_Witness == MediaIdx # {} /\ SaveIdx # {}

\* ---------------------------------------------------------------- C8
ImageSteps ==
  {"url_bar", "context_menu", "save", "permission", "media_button", "album", "tile"}

\* C8 as stated: within the image sub-flow only the tile selection raises.
C8_OnlyTileSelectionAborts ==
  (pc = "raised" /\ seen.step \in ImageSteps) => seen.step = "tile"

\* C8 as amended: the permission prompt and the album switch never raise;
\* the URL bar step raises exactly when neither a URL bar nor a focused
\* element is there, the context menu step only when the menu did not show
\* (and then at the second try or after the new tab), the save step only
\* when no save label was clicked, the media button step exactly when no
\* button is there, the tile step exactly when no tile was found.
C8_AbortingImageSteps ==
  /\ seen.step \in {"permission", "album"} => pc # "raised"
  /\ seen.step = "url_bar" =>
       (pc = "raised" <=> ~(seen.screen.url_bar \/ seen.screen.search \/ seen.screen.focused))
  /\ seen.step = "context_menu" =>
       /\ pc = "raised" => ~seen.screen.menu /\ menu_tries >= 2
       /\ ~seen.screen.menu => pc \in {"raised", "dl_menu"}
  /\ seen.step = "save" =>
       (pc = "raised" =>
          /\ ~clicked
          /\ \A i \in 1..Len(save_labels) : \A j \in 1..Len(seen.screen.texts) :
               ~IsSubstr(save_labels[i], seen.screen.texts[j]))
  /\ seen.step = "media_button" => (pc = "raised" <=> seen.screen = {})
  /\ seen.step = "tile" => (pc = "raised" <=> seen.taps = <<>>)

\* The album controls were absent and the flow went on to the tile step.
C8_Witness ==
  /\ seen.step = "album" /\ seen.taps = <<>>
  /\ ~seen.screen.arrow /\ ~seen.screen.gallery
  /\ pc = "att_tile"

\* ---------------------------------------------------------------- C9
\* The text entries into the composer logged so far.
TextEntries == SelectSeq(log, LAMBDA e : e.op = "set_text" /\ e.arg \in TextTargets)

FIELD_NOT_FOUND == "Tweet text field not found. Inspect the editor element."

\* C9: the readiness poll never raises; the text entry step sets the text
\* into exactly one element, the tweet_text id when it is there, else the
\* EditText class when it is there, else the first input element when the
\* poll had found inputs and one is there; otherwise it raises the
\* field-not-found error, and then no text was set and neither the media
\* button nor the submit button is tapped.
C9_TextEntryPriority ==
  /\ Len(TextEntries) <= 1
  /\ seen.step = "input_poll" => pc = "post_text" /\ err = ""
  /\ seen.step = "text" =>
       LET s == seen.screen
           third == ~s.tweet_text /\ ~s.edit_text /\ inputs_found /\ s.any_input
           none == ~s.tweet_text /\ ~s.edit_text /\ ~(inputs_found /\ s.any_input)
       IN /\ ~none => /\ pc # "raised"
                      /\ Len(TextEntries) = 1
                      /\ TextEntries[1].text = final_text
          /\ s.tweet_text => TextEntries[1].arg = "com.twitter.android:id/tweet_text"
          /\ (~s.tweet_text /\ s.edit_text) => TextEntries[1].arg = "android.widget.EditText"
          /\ third => TextEntries[1].arg = "all_inputs[0]"
          /\ none => /\ pc = "raised" /\ err = FIELD_NOT_FOUND
                     /\ TextEntries = <<>>
                     /\ MediaIdx = {}
                     /\ \A i \in 1..Len(log) : log[i].op = "click" =>
                          log[i].arg \notin {"tile", "button_tweet"}

\* The poll timed out and the text was set all the same.
C9_Witness ==
  /\ seen.step = "text" /\ ~inputs_found
  /\ Len(TextEntries) = 1 /\ pc \in {"att_media", "post_submit"}

\* --------------------------------------------------------------- C10
\* C10: a call of fetch_random_article makes at most one recursive call per
\* distinct candidate URL, requests every article URL at most once, only
\* URLs of the listing and never one that was in attempted when the
\* requesting call was entered; it can always take its next step, and it
\* returns either content or the no-links tuple.
C10_FetchIsBounded ==
  /\ Len(frames) <= Cardinality(ListedUrls) + 1
  /\ pc \in {"fetch_listing", "fetch_article"} => Len(frames) <= Cardinality(ListedUrls)
  /\ Len(ArticleGets) <= Len(frames)
  /\ \A i, j \in 1..Len(ArticleGets) : i # j => ArticleGets[i].text # ArticleGets[j].text
  /\ \A i \in 1..Len(ArticleGets) :
       /\ ArticleGets[i].text \in ListedUrls
       /\ ArticleGets[i].text \notin Range(frames[i].attempted)
  /\ pc \in {"fetch_listing", "fetch_article"} => ENABLED (FetchListing \/ FetchArticle)
  /\ pc = "main_check" =>
       \/ result = NoLinksResult
       \/ /\ content_list # <<>>
          /\ attempted # <<>>
          /\ result.article_url = attempted[Len(attempted)]

\* Both candidates of a two-link listing had no content: the call gave up
\* after two recursive calls.
C10_Witness ==
  /\ pc = "main_check" /\ result = NoLinksResult
  /\ Len(frames) = 3 /\ Len(ArticleGets) = 2
====
